---- MODULE Spec2Model ----
(***************************************************************************)
(* Model of the meta-schedule tuning driver, python/tvm/meta_schedule/     *)
(* tune.py: the Parse resolvers and the three entry points tune_tir,       *)
(* tune_te and tune_relay, and of objectgen's from_python with its         *)
(* resolve_parent_fields.  One call of an entry point is one behaviour:    *)
(* Init fixes the call's arguments, every action is one statement (or one  *)
(* resolver call) of the entry point, in program order.  An exception      *)
(* ends the call in pc = "raised" with the exception in `error`.           *)
(***************************************************************************)
EXTENDS Integers, Sequences, FiniteSets, TLC

VARIABLES
    entry,          \* which entry point is running
    pc,             \* position inside the entry point
    args,           \* the caller's positional arguments and task_name
    ov,             \* the keyword overrides as passed by the caller
    mod,            \* local `mod` of tune_tir
    target,         \* local `target`
    database,       \* local `database`
    extracted_tasks,\* tune_relay: result of extract_task_from_relay
    tune_contexts,  \* tune_relay: contexts before deduplication ([tune_context] in tune_tir)
    tasks,          \* task list handed to Parse._task_scheduler
    builder, runner, cost_model, measure_callbacks,  \* resolved collaborators
    task_scheduler, \* resolved scheduler
    records,        \* workloads that have a tuning record in `database`
    bests,          \* tune_tir: result of the top-1 query
    sch,            \* tune_tir: the schedule being materialised
    calls,          \* collaborator calls made so far, in order
    error,          \* the exception that ended the call, if any
    result,         \* the returned value
    objectgen       \* from_python: its definitions, config and progress

vars == <<entry, pc, args, ov, mod, target, database, extracted_tasks,
          tune_contexts, tasks, builder, runner, cost_model, measure_callbacks,
          task_scheduler, records, bests, sch, calls, error, result, objectgen>>

RECURSIVE ResolveLoop(_, _)
RECURSIVE Up(_, _)
RECURSIVE ContextsLoop(_, _, _, _)
RECURSIVE DedupLoop(_, _, _, _)
RECURSIVE AnyLaterEqual(_, _, _)
RECURSIVE SeqToSet(_)
RECURSIVE OverridesUpTo(_)
RECURSIVE ReferenceDedup(_, _)
RECURSIVE DedupLoopHashOnly(_, _, _, _)

(***************************************************************************)
(* Bounds of the explored inputs.                                          *)
(***************************************************************************)
\* at most this many keyword overrides are passed (not None) in one call
MaxOverridden == 1
\* longest list of extracted tasks in the deduplication runs
MaxTasks == 4

(***************************************************************************)
(* Values.                                                                 *)
(***************************************************************************)
\* the keyword-only override parameters of the entry points
Params == {"builder", "runner", "database", "cost_model", "measure_callbacks",
           "task_scheduler", "space", "sch_rules", "postprocs", "mutator_probs"}

\* Shapes of a value passed for an override:
\*   None        the parameter is omitted
\*   Instance    a ready-made object of the parameter's class (for the list- or
\*               dict-valued parameters: a list/dict of such objects)
\*   Factory     a callable that returns such an object
\*   BadFactory  a callable that returns something else
\*   Int         a plain integer
\*   BadList     a list holding an object of a wrong class
Shapes == {"None", "Instance", "Factory", "BadFactory", "Int", "BadList"}

Callable(v) == v \in {"Factory", "BadFactory"}

\* v() for a callable v: what the factory returns
CallResult(v) == IF v = "Factory" THEN "made" ELSE "junk"

NoErr == [type |-> "", param |-> "", value |-> ""]
Ok(v) == [ok |-> TRUE, val |-> v, err |-> NoErr]
Raise(t, p, v) == [ok |-> FALSE, val |-> "", err |-> [type |-> t, param |-> p, value |-> v]]

\* a function (PrimFunc) with its attributes
Func(b, sym, na) == [body |-> b, global_symbol |-> sym, noalias |-> na]

PrimFuncOf(f) == [kind |-> "PrimFunc", funcs |-> {[name |-> "", func |-> f]}]
IRModuleOf(entries) == [kind |-> "IRModule", funcs |-> entries]
Entry(n, f) == [name |-> n, func |-> f]

SeqToSet(s) == IF s = <<>> THEN {} ELSE {Head(s)} \cup SeqToSet(Tail(s))

Call(op, arg) == [op |-> op, arg |-> arg]

(***************************************************************************)
(* External collaborators, as far as the driver depends on them.           *)
(***************************************************************************)
\* tvm.ir.structural_equal: exact comparison of the programs' structure
StructuralEqual(a, b) == a = b

\* tvm.ir.structural_hash: a fingerprint of the structure; equal programs have
\* equal hashes, and the bodies 1 and 3 collide
StructuralHash(m) ==
    LET bodies == {e.func.body : e \in m.funcs}
    IN  IF bodies = {} THEN 0 ELSE (CHOOSE b \in bodies : \A c \in bodies : b >= c) % 2

\* tvm.te.create_prim_func: the fixed lowering of a tensor list to a PrimFunc
CreatePrimFunc(t) == [kind |-> "PrimFunc", funcs |-> t.funcs]

\* isinstance(v, <class of the parameter>) for a passed value
IsInstance(v) == v = "Instance"

(***************************************************************************)
(* class Parse                                                             *)
(***************************************************************************)
WithAttrMain(f) == [f EXCEPT !.global_symbol = "main", !.noalias = TRUE]

\* Parse_mod without the renaming of a sole entry not named "main"
Parse_mod_KeepingName(m) ==
    LET wrapped == IF m.kind = "PrimFunc"
                   THEN IRModuleOf({Entry("main", WithAttrMain(e.func)) : e \in m.funcs})
                   ELSE m
    IN  IF wrapped.kind # "IRModule"
        THEN Raise("TypeError", "mod", m.kind)
        ELSE IF Cardinality(wrapped.funcs) # 1
        THEN Raise("ValueError", "", "unpack")
        ELSE Ok(wrapped)

Parse_mod(m) ==
    LET wrapped == IF m.kind = "PrimFunc"
                   THEN IRModuleOf({Entry("main", WithAttrMain(e.func)) : e \in m.funcs})
                   ELSE m
    IN  IF wrapped.kind # "IRModule"
        THEN Raise("TypeError", "mod", m.kind)
        ELSE IF Cardinality(wrapped.funcs) # 1
        THEN Raise("ValueError", "", "unpack")       \* (func_name,) = func_names
        ELSE LET e == CHOOSE x \in wrapped.funcs : TRUE
             IN  IF e.name # "main"
                 THEN Ok(IRModuleOf({Entry("main", e.func)}))
                 ELSE Ok(wrapped)

Parse_target(t) ==
    LET made == IF t.shape = "str" THEN [shape |-> "Target", kind |-> t.kind] ELSE t
    IN  IF made.shape # "Target"
        THEN Raise("TypeError", "target", t.shape)
        ELSE Ok(made)

\* Parse_builder without the isinstance check
Parse_builder_Unchecked(v) ==
    IF v = "None" THEN Ok("LocalBuilder") ELSE Ok("given")

Parse_builder(v) ==
    IF v = "None" THEN Ok("LocalBuilder")
    ELSE IF ~IsInstance(v) THEN Raise("TypeError", "builder", v)
    ELSE Ok("given")

Parse_runner(v) ==
    IF v = "None" THEN Ok("LocalRunner")
    ELSE IF ~IsInstance(v) THEN Raise("TypeError", "runner", v)
    ELSE Ok("given")

JSONDatabase(path_workload, path_tuning_record) ==
    [cls |-> "JSONDatabase", path_workload |-> path_workload,
     path_tuning_record |-> path_tuning_record]

GivenDatabase == [cls |-> "given", path_workload |-> <<>>, path_tuning_record |-> <<>>]
NoDatabase == [cls |-> "unset", path_workload |-> <<>>, path_tuning_record |-> <<>>]

\* Parse_database building the default store without the working directory
Parse_database_NoDir(v, task_name, path) ==
    IF v = "None"
    THEN Ok(JSONDatabase(<<"", task_name, "_database_workload.json">>,
                         <<"", task_name, "_database_tuning_record.json">>))
    ELSE IF ~IsInstance(v) THEN Raise("TypeError", "database", v)
    ELSE Ok(GivenDatabase)

Parse_database(v, task_name, path) ==
    IF v = "None"
    THEN Ok(JSONDatabase(<<path, task_name, "_database_workload.json">>,
                         <<path, task_name, "_database_tuning_record.json">>))
    ELSE IF ~IsInstance(v) THEN Raise("TypeError", "database", v)
    ELSE Ok(GivenDatabase)

DefaultCallbacks == <<"AddToDatabase", "RemoveBuildArtifact", "EchoStatistics", "UpdateCostModel">>

Parse_callbacks(v) ==
    IF v = "None" THEN Ok(DefaultCallbacks)
    ELSE IF v \notin {"Instance", "BadList"}          \* not a list or tuple
    THEN Raise("TypeError", "measure_callbacks", v)
    ELSE IF v = "BadList"                              \* some element is no MeasureCallback
    THEN Raise("TypeError", "measure_callbacks", "element")
    ELSE Ok(<<"given">>)

Parse_cost_model(v) ==
    IF v = "None" THEN Ok("XGBModel")
    ELSE IF ~IsInstance(v) THEN Raise("TypeError", "cost_model", v)
    ELSE Ok("given")

Parse_space_generator(v) ==
    IF v = "None" THEN Ok("PostOrderApply")
    ELSE LET got == IF Callable(v) THEN CallResult(v) ELSE v
         IN  IF got \notin {"Instance", "made"}
             THEN Raise("TypeError", "space_generator", got)
             ELSE Ok(IF got = "made" THEN "made" ELSE "given")

\* the contents of the two default profiles (the mutator weights in percent)
DefaultLLVM_sch_rules ==
    <<"AutoInline", "AddRFactor", "MultiLevelTiling", "ParallelizeVectorizeUnroll",
      "RandomComputeLocation">>
DefaultLLVM_postproc ==
    <<"DisallowDynamicLoop", "RewriteParallelVectorizeUnroll", "RewriteReductionBlock">>
DefaultLLVM_mutator_probs == {<<"MutateComputeLocation", 5>>, <<"MutateUnroll", 3>>}
DefaultCUDA_sch_rules ==
    <<"MultiLevelTiling", "AutoInline", "CrossThreadReduction", "ParallelizeVectorizeUnroll">>
DefaultCUDA_postproc ==
    <<"DisallowDynamicLoop", "RewriteUnboundBlock", "RewriteParallelVectorizeUnroll",
      "RewriteReductionBlock", "VerifyGPUCode">>
DefaultCUDA_mutator_probs == {<<"MutateUnroll", 10>>}

\* DefaultProfile falling back to the LLVM profile for a kind it does not know
DefaultProfileFallback(kind) ==
    IF kind = "cuda" THEN "DefaultCUDA" ELSE "DefaultLLVM"

\* the default profile of a target kind: "" when the kind has none
DefaultProfile(kind) ==
    IF kind = "llvm" THEN "DefaultLLVM"
    ELSE IF kind = "cuda" THEN "DefaultCUDA"
    ELSE ""

\* Parse_sch_rules taking a ready-made list of rules as well
Parse_sch_rules_AcceptingList(v, t) ==
    IF Callable(v) THEN Ok(CallResult(v))
    ELSE IF IsInstance(v) THEN Ok("given")
    ELSE IF v # "None" THEN Raise("TypeError", "sch_rules", v)
    ELSE IF DefaultProfile(t.kind) # "" THEN Ok(DefaultProfile(t.kind))
    ELSE Raise("ValueError", "", t.kind)

Parse_sch_rules(v, t) ==
    IF Callable(v) THEN Ok(CallResult(v))
    ELSE IF v # "None" THEN Raise("TypeError", "sch_rules", v)
    ELSE IF DefaultProfile(t.kind) # "" THEN Ok(DefaultProfile(t.kind))
    ELSE Raise("ValueError", "", t.kind)

Parse_postproc(v, t) ==
    IF Callable(v) THEN Ok(CallResult(v))
    ELSE IF v # "None" THEN Raise("TypeError", "postproc", v)
    ELSE IF DefaultProfile(t.kind) # "" THEN Ok(DefaultProfile(t.kind))
    ELSE Raise("ValueError", "", t.kind)

Parse_mutator_probs(v, t) ==
    IF Callable(v) THEN Ok(CallResult(v))
    ELSE IF v # "None" THEN Raise("TypeError", "mutator_probs", v)
    ELSE IF DefaultProfile(t.kind) # "" THEN Ok(DefaultProfile(t.kind))
    ELSE Raise("ValueError", "", t.kind)

NoContext == [mod |-> IRModuleOf({}), target |-> "", space_generator |-> "",
              sch_rules |-> "", postprocs |-> "", mutator_probs |-> "", task_name |-> ""]

\* Parse._tune_context with tune_context=None: the keyword arguments of
\* TuneContext(...) are evaluated in order, the first exception wins
Parse_tune_context(m, t, task_name, o) ==
    LET sg == Parse_space_generator(o["space"])
        sr == Parse_sch_rules(o["sch_rules"], t)
        pp == Parse_postproc(o["postprocs"], t)
        mp == Parse_mutator_probs(o["mutator_probs"], t)
    IN  IF ~sg.ok THEN [sg EXCEPT !.val = NoContext]
        ELSE IF ~sr.ok THEN [sr EXCEPT !.val = NoContext]
        ELSE IF ~pp.ok THEN [pp EXCEPT !.val = NoContext]
        ELSE IF ~mp.ok THEN [mp EXCEPT !.val = NoContext]
        ELSE Ok([mod |-> m, target |-> t.kind, space_generator |-> sg.val,
                 sch_rules |-> sr.val, postprocs |-> pp.val, mutator_probs |-> mp.val,
                 task_name |-> task_name])

Scheduler(cls, ts, b, r, d, c, m) ==
    [cls |-> cls, tasks |-> ts, builder |-> b, runner |-> r, database |-> d,
     cost_model |-> c, measure_callbacks |-> m]

\* a scheduler the caller built: it holds whatever it was built with
GivenScheduler == Scheduler("given", <<>>, "own", "own", [GivenDatabase EXCEPT !.cls = "own"], "own", <<"own">>)
\* what a factory of the wrong kind returns: no scheduler at all
JunkScheduler == Scheduler("junk", <<>>, "", "", NoDatabase, "", <<>>)
NoScheduler == Scheduler("unset", <<>>, "", "", NoDatabase, "", <<>>)

Parse_task_scheduler(v, ts, b, r, d, c, m) ==
    IF v = "None" THEN Ok(Scheduler("RoundRobin", ts, b, r, d, c, m))
    ELSE IF Callable(v)
    THEN Ok(IF v = "Factory" THEN Scheduler("made", ts, b, r, d, c, m) ELSE JunkScheduler)
    ELSE IF ~IsInstance(v) THEN Raise("TypeError", "task_scheduler", v)
    ELSE Ok(GivenScheduler)

\* the factory calls and constructions Parse._tune_context makes, up to the
\* first exception
TuneContextCalls(o, t) ==
    LET sg == Parse_space_generator(o["space"])
        sr == Parse_sch_rules(o["sch_rules"], t)
        pp == Parse_postproc(o["postprocs"], t)
        mp == Parse_mutator_probs(o["mutator_probs"], t)
        c1 == IF Callable(o["space"]) THEN <<Call("space()", <<>>)>> ELSE <<>>
        c2 == <<Call("create_strategy", <<>>)>>
              \o (IF Callable(o["sch_rules"]) THEN <<Call("sch_rules()", <<>>)>> ELSE <<>>)
        c3 == IF Callable(o["postprocs"]) THEN <<Call("postprocs()", <<>>)>> ELSE <<>>
        c4 == IF Callable(o["mutator_probs"]) THEN <<Call("mutator_probs()", <<>>)>> ELSE <<>>
    IN  IF ~sg.ok THEN c1
        ELSE IF ~sr.ok THEN c1 \o c2
        ELSE IF ~pp.ok THEN c1 \o c2 \o c3
        ELSE IF ~mp.ok THEN c1 \o c2 \o c3 \o c4
        ELSE c1 \o c2 \o c3 \o c4 \o <<Call("TuneContext", <<>>)>>

(***************************************************************************)
(* The calls explored.                                                     *)
(***************************************************************************)
AllNone == [p \in Params |-> "None"]

\* the override records with at most n parameters passed
OverridesUpTo(n) ==
    IF n = 0 THEN {AllNone}
    ELSE LET prev == OverridesUpTo(n - 1)
         IN  prev \cup {[o EXCEPT ![p] = v] : o \in prev, p \in Params, v \in Shapes}

\* programs passed to tune_tir
ModInputs ==
    { PrimFuncOf(Func(1, "main", TRUE)),
      PrimFuncOf(Func(1, "fused", FALSE)),
      IRModuleOf({Entry("main", Func(1, "main", TRUE))}),
      IRModuleOf({Entry("fused", Func(1, "fused", FALSE))}),
      IRModuleOf({Entry("main", Func(1, "main", TRUE)), Entry("helper", Func(2, "helper", FALSE))}),
      IRModuleOf({}),
      [kind |-> "Int", funcs |-> {}] }

\* tensor lists passed to tune_te
TensorInputs == { [kind |-> "Tensors", funcs |-> {[name |-> "", func |-> Func(2, "main", TRUE)]}] }

TargetInputs ==
    { [shape |-> "str", kind |-> "llvm"],
      [shape |-> "Target", kind |-> "llvm"],
      [shape |-> "Target", kind |-> "cuda"],
      [shape |-> "str", kind |-> "vulkan"],
      [shape |-> "Int", kind |-> ""] }

\* working directories and task names passed by the caller
WorkDirInputs == {"work_dir", "logs"}
TaskNameInputs == {"main", "conv2d"}

NoTarget == [shape |-> "unset", kind |-> ""]
NoSchedule == [mod |-> IRModuleOf({}), trace |-> ""]
NoResult == [kind |-> "unset", value |-> NoSchedule]

\* no from_python call is running
NoObjectgen ==
    [pc |-> "idle", given |-> <<>>, definitions |-> <<>>,
     config |-> [cpp |-> FALSE, python |-> FALSE], generated |-> <<>>, error |-> ""]

InitLocals ==
    /\ target = NoTarget
    /\ database = NoDatabase
    /\ extracted_tasks = <<>>
    /\ tune_contexts = <<>>
    /\ tasks = <<>>
    /\ builder = ""
    /\ runner = ""
    /\ cost_model = ""
    /\ measure_callbacks = <<>>
    /\ task_scheduler = NoScheduler
    /\ records = {}
    /\ bests = <<>>
    /\ sch = NoSchedule
    /\ calls = <<>>
    /\ error = NoErr
    /\ result = NoResult

InitTir ==
    /\ entry \in {"tune_tir", "tune_te"}
    /\ args \in [mod : IF entry = "tune_tir" THEN ModInputs ELSE TensorInputs,
                 target : TargetInputs, work_dir : WorkDirInputs, task_name : TaskNameInputs]
    /\ ov \in OverridesUpTo(MaxOverridden)
    /\ mod = args.mod
    /\ pc = IF entry = "tune_tir" THEN "tir:mod" ELSE "te:create_prim_func"
    /\ InitLocals
    /\ objectgen = NoObjectgen

(***************************************************************************)
(* tune_te                                                                 *)
(***************************************************************************)
\* TeCreatePrimFunc handing the tensors to tune_tir without lowering them
TeCreatePrimFunc_Unlowered ==
    /\ pc = "te:create_prim_func"
    /\ mod' = args.mod
    /\ calls' = calls \o <<Call("create_prim_func", <<>>)>>
    /\ pc' = "tir:mod"
    /\ UNCHANGED <<objectgen, entry, args, ov, target, database, extracted_tasks, tune_contexts,
                   tasks, builder, runner, cost_model, measure_callbacks,
                   task_scheduler, records, bests, sch, error, result>>

TeCreatePrimFunc ==
    /\ pc = "te:create_prim_func"
    /\ mod' = CreatePrimFunc(args.mod)
    /\ calls' = calls \o <<Call("create_prim_func", <<>>)>>
    /\ pc' = "tir:mod"
    /\ UNCHANGED <<objectgen, entry, args, ov, target, database, extracted_tasks, tune_contexts,
                   tasks, builder, runner, cost_model, measure_callbacks,
                   task_scheduler, records, bests, sch, error, result>>

(***************************************************************************)
(* tune_tir                                                                *)
(***************************************************************************)
TirMod ==
    /\ pc = "tir:mod"
    /\ LET r == Parse_mod(mod)
       IN  /\ mod' = IF r.ok THEN r.val ELSE mod
           /\ error' = r.err
           /\ pc' = IF r.ok THEN "tir:database" ELSE "raised"
    /\ UNCHANGED <<objectgen, entry, args, ov, target, database, extracted_tasks, tune_contexts,
                   tasks, builder, runner, cost_model, measure_callbacks,
                   task_scheduler, records, bests, sch, calls, result>>

TirDatabase ==
    /\ pc = "tir:database"
    /\ LET r == Parse_database(ov["database"], args.task_name, args.work_dir)
       IN  /\ database' = IF r.ok THEN r.val ELSE database
           /\ error' = r.err
           /\ pc' = IF r.ok THEN "tir:target" ELSE "raised"
    /\ calls' = IF ov["database"] = "None"
                THEN calls \o <<Call("JSONDatabase", <<>>)>> ELSE calls
    /\ UNCHANGED <<objectgen, entry, args, ov, mod, target, extracted_tasks, tune_contexts,
                   tasks, builder, runner, cost_model, measure_callbacks,
                   task_scheduler, records, bests, sch, result>>

TirTarget ==
    /\ pc = "tir:target"
    /\ LET r == Parse_target(args.target)
       IN  /\ target' = IF r.ok THEN r.val ELSE target
           /\ error' = r.err
           /\ pc' = IF r.ok THEN "tir:tune_context" ELSE "raised"
    /\ UNCHANGED <<objectgen, entry, args, ov, mod, database, extracted_tasks, tune_contexts,
                   tasks, builder, runner, cost_model, measure_callbacks,
                   task_scheduler, records, bests, sch, calls, result>>

TirTuneContext ==
    /\ pc = "tir:tune_context"
    /\ LET r == Parse_tune_context(mod, target, args.task_name, ov)
       IN  /\ tune_contexts' = IF r.ok THEN <<r.val>> ELSE tune_contexts
           /\ tasks' = IF r.ok THEN <<r.val>> ELSE tasks
           /\ error' = r.err
           /\ pc' = IF r.ok THEN "tir:builder" ELSE "raised"
    /\ calls' = calls \o TuneContextCalls(ov, target)
    /\ UNCHANGED <<objectgen, entry, args, ov, mod, target, database, extracted_tasks,
                   builder, runner, cost_model, measure_callbacks,
                   task_scheduler, records, bests, sch, result>>

TirBuilder ==
    /\ pc = "tir:builder"
    /\ LET r == Parse_builder(ov["builder"])
       IN  /\ builder' = IF r.ok THEN r.val ELSE builder
           /\ error' = r.err
           /\ pc' = IF r.ok THEN "tir:runner" ELSE "raised"
    /\ calls' = IF ov["builder"] = "None"
                THEN calls \o <<Call("LocalBuilder", <<>>)>> ELSE calls
    /\ UNCHANGED <<objectgen, entry, args, ov, mod, target, database, extracted_tasks, tune_contexts,
                   tasks, runner, cost_model, measure_callbacks,
                   task_scheduler, records, bests, sch, result>>

TirRunner ==
    /\ pc = "tir:runner"
    /\ LET r == Parse_runner(ov["runner"])
       IN  /\ runner' = IF r.ok THEN r.val ELSE runner
           /\ error' = r.err
           /\ pc' = IF r.ok THEN "tir:cost_model" ELSE "raised"
    /\ calls' = IF ov["runner"] = "None"
                THEN calls \o <<Call("LocalRunner", <<>>)>> ELSE calls
    /\ UNCHANGED <<objectgen, entry, args, ov, mod, target, database, extracted_tasks, tune_contexts,
                   tasks, builder, cost_model, measure_callbacks,
                   task_scheduler, records, bests, sch, result>>

TirCostModel ==
    /\ pc = "tir:cost_model"
    /\ LET r == Parse_cost_model(ov["cost_model"])
       IN  /\ cost_model' = IF r.ok THEN r.val ELSE cost_model
           /\ error' = r.err
           /\ pc' = IF r.ok THEN "tir:callbacks" ELSE "raised"
    /\ calls' = IF ov["cost_model"] = "None"
                THEN calls \o <<Call("XGBModel", <<>>)>> ELSE calls
    /\ UNCHANGED <<objectgen, entry, args, ov, mod, target, database, extracted_tasks, tune_contexts,
                   tasks, builder, runner, measure_callbacks,
                   task_scheduler, records, bests, sch, result>>

TirCallbacks ==
    /\ pc = "tir:callbacks"
    /\ LET r == Parse_callbacks(ov["measure_callbacks"])
       IN  /\ measure_callbacks' = IF r.ok THEN r.val ELSE measure_callbacks
           /\ error' = r.err
           /\ pc' = IF r.ok THEN "tir:task_scheduler" ELSE "raised"
    /\ UNCHANGED <<objectgen, entry, args, ov, mod, target, database, extracted_tasks, tune_contexts,
                   tasks, builder, runner, cost_model,
                   task_scheduler, records, bests, sch, calls, result>>

\* the call a resolution of the scheduler makes
SchedulerCalls(v) ==
    IF v = "None" THEN <<Call("RoundRobin", <<>>)>>
    ELSE IF Callable(v) THEN <<Call("task_scheduler()", <<>>)>>
    ELSE <<>>

\* TirTaskScheduler going on to tune when the scheduler was not resolved
TirTaskScheduler_Continuing ==
    /\ pc = "tir:task_scheduler"
    /\ LET r == Parse_task_scheduler(ov["task_scheduler"], tasks, builder, runner,
                                     database, cost_model, measure_callbacks)
       IN  /\ task_scheduler' = IF r.ok THEN r.val ELSE task_scheduler
           /\ error' = r.err
           /\ pc' = "tir:tune"
    /\ calls' = calls \o SchedulerCalls(ov["task_scheduler"])
    /\ UNCHANGED <<objectgen, entry, args, ov, mod, target, database, extracted_tasks, tune_contexts,
                   tasks, builder, runner, cost_model, measure_callbacks,
                   records, bests, sch, result>>

TirTaskScheduler ==
    /\ pc = "tir:task_scheduler"
    /\ LET r == Parse_task_scheduler(ov["task_scheduler"], tasks, builder, runner,
                                     database, cost_model, measure_callbacks)
       IN  /\ task_scheduler' = IF r.ok THEN r.val ELSE task_scheduler
           /\ error' = r.err
           /\ pc' = IF r.ok THEN "tir:tune" ELSE "raised"
    /\ calls' = calls \o SchedulerCalls(ov["task_scheduler"])
    /\ UNCHANGED <<objectgen, entry, args, ov, mod, target, database, extracted_tasks, tune_contexts,
                   tasks, builder, runner, cost_model, measure_callbacks,
                   records, bests, sch, result>>

\* task_scheduler.tune(): opaque and blocking; when it returns, any of the
\* driver's workloads may have got a record in the database.  An object
\* without a tune method raises AttributeError.
TirTune ==
    /\ pc = "tir:tune"
    /\ IF task_scheduler.cls = "junk"
       THEN /\ error' = [type |-> "AttributeError", param |-> "", value |-> "tune"]
            /\ pc' = "raised"
            /\ UNCHANGED <<records, calls>>
       ELSE /\ records' \in SUBSET {t.mod : t \in SeqToSet(tasks)}
            /\ calls' = calls \o <<Call("tune", <<>>)>>
            /\ pc' = "tir:get_top_k"
            /\ error' = error
    /\ UNCHANGED <<objectgen, entry, args, ov, mod, target, database, extracted_tasks, tune_contexts,
                   tasks, builder, runner, cost_model, measure_callbacks,
                   task_scheduler, bests, sch, result>>

\* database.get_top_k(database.commit_workload(mod), top_k=1)
GetTopK(recs, workload) ==
    IF workload \in recs THEN <<[workload |-> workload, trace |-> "best trace"]>> ELSE <<>>

\* TirGetTopK raising on an empty query result instead of returning None
TirGetTopKRaising ==
    /\ pc = "tir:get_top_k"
    /\ bests' = GetTopK(records, mod)
    /\ calls' = calls \o <<Call("commit_workload", <<>>), Call("get_top_k", <<>>)>>
    /\ IF bests' = <<>>
       THEN /\ error' = [type |-> "IndexError", param |-> "", value |-> "bests"]
            /\ pc' = "raised"
       ELSE /\ error' = error
            /\ pc' = "tir:apply"
    /\ UNCHANGED <<objectgen, entry, args, ov, mod, target, database, extracted_tasks, tune_contexts,
                   tasks, builder, runner, cost_model, measure_callbacks,
                   task_scheduler, records, sch, result>>

\* TirGetTopK saving the cost model before the early return as well
TirGetTopKSaving ==
    /\ pc = "tir:get_top_k"
    /\ bests' = GetTopK(records, mod)
    /\ IF bests' = <<>>
       THEN /\ result' = [kind |-> "None", value |-> NoSchedule]
            /\ calls' = calls \o <<Call("commit_workload", <<>>), Call("get_top_k", <<>>),
                                   Call("save", <<args.work_dir, args.task_name, ".xgb">>)>>
            /\ pc' = "returned"
       ELSE /\ result' = result
            /\ calls' = calls \o <<Call("commit_workload", <<>>), Call("get_top_k", <<>>)>>
            /\ pc' = "tir:apply"
    /\ UNCHANGED <<objectgen, entry, args, ov, mod, target, database, extracted_tasks, tune_contexts,
                   tasks, builder, runner, cost_model, measure_callbacks,
                   task_scheduler, records, sch, error>>

TirGetTopK ==
    /\ pc = "tir:get_top_k"
    /\ bests' = GetTopK(records, mod)
    /\ calls' = calls \o <<Call("commit_workload", <<>>), Call("get_top_k", <<>>)>>
    /\ IF bests' = <<>>
       THEN /\ result' = [kind |-> "None", value |-> NoSchedule]
            /\ pc' = "returned"
       ELSE /\ result' = result
            /\ pc' = "tir:apply"
    /\ UNCHANGED <<objectgen, entry, args, ov, mod, target, database, extracted_tasks, tune_contexts,
                   tasks, builder, runner, cost_model, measure_callbacks,
                   task_scheduler, records, sch, error>>

TirApply ==
    /\ pc = "tir:apply"
    /\ sch' = [mod |-> mod, trace |-> bests[1].trace]
    /\ calls' = calls \o <<Call("Schedule", <<>>), Call("apply_to_schedule", <<>>)>>
    /\ pc' = "tir:save"
    /\ UNCHANGED <<objectgen, entry, args, ov, mod, target, database, extracted_tasks, tune_contexts,
                   tasks, builder, runner, cost_model, measure_callbacks,
                   task_scheduler, records, bests, error, result>>

\* TirSave returning the schedule without saving the cost model
TirSaveSkipped ==
    /\ pc = "tir:save"
    /\ result' = [kind |-> "Schedule", value |-> sch]
    /\ pc' = "returned"
    /\ UNCHANGED <<objectgen, entry, args, ov, mod, target, database, extracted_tasks, tune_contexts,
                   tasks, builder, runner, cost_model, measure_callbacks,
                   task_scheduler, records, bests, sch, calls, error>>

TirSave ==
    /\ pc = "tir:save"
    /\ calls' = calls \o <<Call("save", <<args.work_dir, args.task_name, ".xgb">>)>>
    /\ result' = [kind |-> "Schedule", value |-> sch]
    /\ pc' = "returned"
    /\ UNCHANGED <<objectgen, entry, args, ov, mod, target, database, extracted_tasks, tune_contexts,
                   tasks, builder, runner, cost_model, measure_callbacks,
                   task_scheduler, records, bests, sch, error>>

NextTir ==
    \/ TeCreatePrimFunc
    \/ TirMod
    \/ TirDatabase
    \/ TirTarget
    \/ TirTuneContext
    \/ TirBuilder
    \/ TirRunner
    \/ TirCostModel
    \/ TirCallbacks
    \/ TirTaskScheduler
    \/ TirTune
    \/ TirGetTopK
    \/ TirApply
    \/ TirSave

SpecTir == InitTir /\ [][NextTir]_vars

(***************************************************************************)
(* tune_relay                                                              *)
(***************************************************************************)
\* integration.extract_task_from_relay: the tasks of the whole-model program
ExtractTaskFromRelay(m) == m.extract

\* the loop "for task in extracted_tasks": acc holds the contexts built and
\* the calls made so far; the first exception ends the loop
ContextsLoop(ts, t, o, acc) ==
    IF ts = <<>> THEN [ok |-> TRUE, val |-> acc.ctxs, err |-> NoErr, calls |-> acc.calls]
    ELSE LET task == Head(ts)
         IN  IF Len(task.dispatched) # 1
             THEN [ok |-> FALSE, val |-> acc.ctxs, calls |-> acc.calls,
                   err |-> [type |-> "AssertionError", param |-> "",
                            value |-> "Only size 1 dispatched task list is supported for now"]]
             ELSE LET m == Parse_mod(task.dispatched[1])
                      c == Parse_tune_context(m.val, t, task.task_name, o)
                  IN  IF ~m.ok
                      THEN [ok |-> FALSE, val |-> acc.ctxs, calls |-> acc.calls, err |-> m.err]
                      ELSE IF ~c.ok
                      THEN [ok |-> FALSE, val |-> acc.ctxs, err |-> c.err,
                            calls |-> acc.calls \o TuneContextCalls(o, t)]
                      ELSE ContextsLoop(Tail(ts), t, o,
                                        [ctxs |-> Append(acc.ctxs, c.val),
                                         calls |-> acc.calls \o TuneContextCalls(o, t)])

\* AnyLaterEqual with the test inverted: no later context is structurally equal
NoLaterEqual(ctxs, i, j) ==
    \A k \in j..Len(ctxs) : ~StructuralEqual(ctxs[i].mod, ctxs[k].mod)

\* "for other_task in tune_contexts[i + 1 :]": is some context after position
\* i, from position j on, structurally equal to the one at i
AnyLaterEqual(ctxs, i, j) ==
    IF j > Len(ctxs) THEN FALSE
    ELSE IF StructuralEqual(ctxs[i].mod, ctxs[j].mod) THEN TRUE
    ELSE AnyLaterEqual(ctxs, i, j + 1)

\* DedupLoop discarding on a hash match alone, without the equality check
DedupLoopHashOnly(ctxs, i, accepted, hashs) ==
    IF i > Len(ctxs) THEN accepted
    ELSE LET task == ctxs[i]
             struct_hash == StructuralHash(task.mod)
         IN  IF struct_hash \notin SeqToSet(hashs)
             THEN DedupLoopHashOnly(ctxs, i + 1, Append(accepted, task), Append(hashs, struct_hash))
             ELSE DedupLoopHashOnly(ctxs, i + 1, accepted, hashs)

\* the deduplication loop from position i on (positions count from 1), with
\* the accepted tasks and their hashes so far
DedupLoop(ctxs, i, accepted, hashs) ==
    IF i > Len(ctxs) THEN accepted
    ELSE LET task == ctxs[i]
             struct_hash == StructuralHash(task.mod)
             flag == /\ struct_hash \in SeqToSet(hashs)
                     /\ AnyLaterEqual(ctxs, i, i + 1)
         IN  IF ~flag
             THEN DedupLoop(ctxs, i + 1, Append(accepted, task), Append(hashs, struct_hash))
             ELSE DedupLoop(ctxs, i + 1, accepted, hashs)

\* Deduplicate starting its enumeration at the second context
Deduplicate_FromSecond(ctxs) == DedupLoop(ctxs, 2, <<>>, <<>>)

Deduplicate(ctxs) == DedupLoop(ctxs, 1, <<>>, <<>>)

RelayExtract ==
    /\ pc = "relay:extract"
    /\ extracted_tasks' = ExtractTaskFromRelay(args.mod)
    /\ calls' = calls \o <<Call("extract_task_from_relay", <<>>)>>
    /\ pc' = "relay:target"
    /\ UNCHANGED <<objectgen, entry, args, ov, mod, target, database, tune_contexts,
                   tasks, builder, runner, cost_model, measure_callbacks,
                   task_scheduler, records, bests, sch, error, result>>

RelayTarget ==
    /\ pc = "relay:target"
    /\ LET r == Parse_target(args.target)
       IN  /\ target' = IF r.ok THEN r.val ELSE target
           /\ error' = r.err
           /\ pc' = IF r.ok THEN "relay:database" ELSE "raised"
    /\ UNCHANGED <<objectgen, entry, args, ov, mod, database, extracted_tasks, tune_contexts,
                   tasks, builder, runner, cost_model, measure_callbacks,
                   task_scheduler, records, bests, sch, calls, result>>

RelayDatabase ==
    /\ pc = "relay:database"
    /\ LET r == Parse_database(ov["database"], args.task_name, args.work_dir)
       IN  /\ database' = IF r.ok THEN r.val ELSE database
           /\ error' = r.err
           /\ pc' = IF r.ok THEN "relay:contexts" ELSE "raised"
    /\ calls' = IF ov["database"] = "None"
                THEN calls \o <<Call("JSONDatabase", <<>>)>> ELSE calls
    /\ UNCHANGED <<objectgen, entry, args, ov, mod, target, extracted_tasks, tune_contexts,
                   tasks, builder, runner, cost_model, measure_callbacks,
                   task_scheduler, records, bests, sch, result>>

\* RelayContexts without the assertion: tasks that do not have exactly one
\* dispatched candidate are skipped
RelayContextsSkipping ==
    /\ pc = "relay:contexts"
    /\ LET ones == SelectSeq(extracted_tasks, LAMBDA t : Len(t.dispatched) = 1)
           r == ContextsLoop(ones, target, ov, [ctxs |-> <<>>, calls |-> <<>>])
       IN  /\ tune_contexts' = r.val
           /\ calls' = calls \o r.calls
           /\ error' = r.err
           /\ pc' = IF r.ok THEN "relay:dedup" ELSE "raised"
    /\ UNCHANGED <<objectgen, entry, args, ov, mod, target, database, extracted_tasks,
                   tasks, builder, runner, cost_model, measure_callbacks,
                   task_scheduler, records, bests, sch, result>>

RelayContexts ==
    /\ pc = "relay:contexts"
    /\ LET r == ContextsLoop(extracted_tasks, target, ov, [ctxs |-> <<>>, calls |-> <<>>])
       IN  /\ tune_contexts' = r.val
           /\ calls' = calls \o r.calls
           /\ error' = r.err
           /\ pc' = IF r.ok THEN "relay:dedup" ELSE "raised"
    /\ UNCHANGED <<objectgen, entry, args, ov, mod, target, database, extracted_tasks,
                   tasks, builder, runner, cost_model, measure_callbacks,
                   task_scheduler, records, bests, sch, result>>

RelayDedup ==
    /\ pc = "relay:dedup"
    /\ tasks' = Deduplicate(tune_contexts)
    /\ calls' = calls \o <<Call("log:Before task deduplication", <<Len(tune_contexts)>>),
                           Call("log:After task deduplication", <<Len(tasks')>>)>>
    /\ pc' = "relay:builder"
    /\ UNCHANGED <<objectgen, entry, args, ov, mod, target, database, extracted_tasks, tune_contexts,
                   builder, runner, cost_model, measure_callbacks,
                   task_scheduler, records, bests, sch, error, result>>

RelayBuilder ==
    /\ pc = "relay:builder"
    /\ LET r == Parse_builder(ov["builder"])
       IN  /\ builder' = IF r.ok THEN r.val ELSE builder
           /\ error' = r.err
           /\ pc' = IF r.ok THEN "relay:runner" ELSE "raised"
    /\ calls' = IF ov["builder"] = "None"
                THEN calls \o <<Call("LocalBuilder", <<>>)>> ELSE calls
    /\ UNCHANGED <<objectgen, entry, args, ov, mod, target, database, extracted_tasks, tune_contexts,
                   tasks, runner, cost_model, measure_callbacks,
                   task_scheduler, records, bests, sch, result>>

RelayRunner ==
    /\ pc = "relay:runner"
    /\ LET r == Parse_runner(ov["runner"])
       IN  /\ runner' = IF r.ok THEN r.val ELSE runner
           /\ error' = r.err
           /\ pc' = IF r.ok THEN "relay:cost_model" ELSE "raised"
    /\ calls' = IF ov["runner"] = "None"
                THEN calls \o <<Call("LocalRunner", <<>>)>> ELSE calls
    /\ UNCHANGED <<objectgen, entry, args, ov, mod, target, database, extracted_tasks, tune_contexts,
                   tasks, builder, cost_model, measure_callbacks,
                   task_scheduler, records, bests, sch, result>>

RelayCostModel ==
    /\ pc = "relay:cost_model"
    /\ LET r == Parse_cost_model(ov["cost_model"])
       IN  /\ cost_model' = IF r.ok THEN r.val ELSE cost_model
           /\ error' = r.err
           /\ pc' = IF r.ok THEN "relay:callbacks" ELSE "raised"
    /\ calls' = IF ov["cost_model"] = "None"
                THEN calls \o <<Call("XGBModel", <<>>)>> ELSE calls
    /\ UNCHANGED <<objectgen, entry, args, ov, mod, target, database, extracted_tasks, tune_contexts,
                   tasks, builder, runner, measure_callbacks,
                   task_scheduler, records, bests, sch, result>>

RelayCallbacks ==
    /\ pc = "relay:callbacks"
    /\ LET r == Parse_callbacks(ov["measure_callbacks"])
       IN  /\ measure_callbacks' = IF r.ok THEN r.val ELSE measure_callbacks
           /\ error' = r.err
           /\ pc' = IF r.ok THEN "relay:task_scheduler" ELSE "raised"
    /\ UNCHANGED <<objectgen, entry, args, ov, mod, target, database, extracted_tasks, tune_contexts,
                   tasks, builder, runner, cost_model,
                   task_scheduler, records, bests, sch, calls, result>>

RelayTaskScheduler ==
    /\ pc = "relay:task_scheduler"
    /\ LET r == Parse_task_scheduler(ov["task_scheduler"], tasks, builder, runner,
                                     database, cost_model, measure_callbacks)
       IN  /\ task_scheduler' = IF r.ok THEN r.val ELSE task_scheduler
           /\ error' = r.err
           /\ pc' = IF r.ok THEN "relay:tune" ELSE "raised"
    /\ calls' = calls \o SchedulerCalls(ov["task_scheduler"])
    /\ UNCHANGED <<objectgen, entry, args, ov, mod, target, database, extracted_tasks, tune_contexts,
                   tasks, builder, runner, cost_model, measure_callbacks,
                   records, bests, sch, result>>

RelayTune ==
    /\ pc = "relay:tune"
    /\ IF task_scheduler.cls = "junk"
       THEN /\ error' = [type |-> "AttributeError", param |-> "", value |-> "tune"]
            /\ pc' = "raised"
            /\ UNCHANGED <<records, calls>>
       ELSE /\ records' \in SUBSET {t.mod : t \in SeqToSet(tasks)}
            /\ calls' = calls \o <<Call("tune", <<>>)>>
            /\ pc' = "relay:build"
            /\ error' = error
    /\ UNCHANGED <<objectgen, entry, args, ov, mod, target, database, extracted_tasks, tune_contexts,
                   tasks, builder, runner, cost_model, measure_callbacks,
                   task_scheduler, bests, sch, result>>

\* with ApplyHistoryBest(database): ... return relay.build(mod, target, params).
\* The build is external and may fail; the scope is left either way.
\* RelayBuild leaving the apply-history scope only when the build succeeds
RelayBuild_ScopeLeftOnSuccess ==
    /\ pc = "relay:build"
    /\ \E built \in BOOLEAN :
          /\ calls' = calls \o <<Call("ApplyHistoryBest.__enter__", <<database.cls>>),
                                 Call("relay.build", <<target.kind>>)>>
                           \o (IF built
                               THEN <<Call("ApplyHistoryBest.__exit__", <<database.cls>>)>>
                               ELSE <<>>)
          /\ result' = IF built
                       THEN [kind |-> "ExecutorFactoryModule",
                             value |-> [mod |-> args.mod, records |-> records]]
                       ELSE result
          /\ error' = IF built THEN error
                      ELSE [type |-> "BuildError", param |-> "", value |-> "relay.build"]
          /\ pc' = IF built THEN "returned" ELSE "raised"
    /\ UNCHANGED <<objectgen, entry, args, ov, mod, target, database, extracted_tasks, tune_contexts,
                   tasks, builder, runner, cost_model, measure_callbacks,
                   task_scheduler, records, bests, sch>>

RelayBuild ==
    /\ pc = "relay:build"
    /\ \E built \in BOOLEAN :
          /\ calls' = calls \o <<Call("ApplyHistoryBest.__enter__", <<database.cls>>),
                                 Call("relay.build", <<target.kind>>),
                                 Call("ApplyHistoryBest.__exit__", <<database.cls>>)>>
          /\ result' = IF built
                       THEN [kind |-> "ExecutorFactoryModule",
                             value |-> [mod |-> args.mod, records |-> records]]
                       ELSE result
          /\ error' = IF built THEN error
                      ELSE [type |-> "BuildError", param |-> "", value |-> "relay.build"]
          /\ pc' = IF built THEN "returned" ELSE "raised"
    /\ UNCHANGED <<objectgen, entry, args, ov, mod, target, database, extracted_tasks, tune_contexts,
                   tasks, builder, runner, cost_model, measure_callbacks,
                   task_scheduler, records, bests, sch>>

NextRelay ==
    \/ RelayExtract
    \/ RelayTarget
    \/ RelayDatabase
    \/ RelayContexts
    \/ RelayDedup
    \/ RelayBuilder
    \/ RelayRunner
    \/ RelayCostModel
    \/ RelayCallbacks
    \/ RelayTaskScheduler
    \/ RelayTune
    \/ RelayBuild

\* modules the task extraction dispatches: A, A' (A under another entry name),
\* B (another body with A's hash), C, and D (another body with C's hash)
ModA == IRModuleOf({Entry("main", Func(1, "main", TRUE))})
ModA2 == IRModuleOf({Entry("fused", Func(1, "main", TRUE))})
ModB == IRModuleOf({Entry("main", Func(3, "main", TRUE))})
ModC == IRModuleOf({Entry("main", Func(2, "main", TRUE))})
ModD == IRModuleOf({Entry("main", Func(4, "main", TRUE))})
RelayMods == {ModA, ModA2, ModB, ModC, ModD}

\* the task lists of at most n tasks, each with exactly one dispatched module
TaskLists(n) ==
    UNION { { [i \in 1..k |-> [task_name |-> i, dispatched |-> <<f[i]>>]] :
              f \in [1..k -> RelayMods] } : k \in 0..n }

\* the deduplication runs: every task list, default collaborators
InitDedup ==
    /\ entry = "tune_relay"
    /\ args \in [mod : {[kind |-> "Relay", extract |-> l] : l \in TaskLists(MaxTasks)},
                 target : {[shape |-> "str", kind |-> "llvm"]},
                 work_dir : {"work_dir"}, task_name : {"main"}]
    /\ ov = AllNone
    /\ mod = args.mod
    /\ pc = "relay:extract"
    /\ InitLocals
    /\ objectgen = NoObjectgen

SpecDedup == InitDedup /\ [][NextRelay]_vars

\* extracted tasks with two, none, and a two-function dispatched module
TaskOf(n, ds) == [task_name |-> n, dispatched |-> ds]

RelayInputs ==
    { <<>>,
      <<TaskOf(1, <<ModA>>)>>,
      <<TaskOf(1, <<ModA2>>), TaskOf(2, <<ModA>>)>>,
      <<TaskOf(1, <<ModA>>), TaskOf(2, <<ModB>>)>>,
      <<TaskOf(1, <<ModA, ModC>>)>>,
      <<TaskOf(1, <<ModA>>), TaskOf(2, <<>>)>>,
      <<TaskOf(1, <<IRModuleOf({Entry("main", Func(1, "main", TRUE)),
                               Entry("helper", Func(2, "helper", FALSE))})>>)>> }

\* tune_relay with overrides, any target, and the task lists above
InitRelay ==
    /\ entry = "tune_relay"
    /\ args \in [mod : {[kind |-> "Relay", extract |-> l] : l \in RelayInputs},
                 target : TargetInputs, work_dir : WorkDirInputs, task_name : TaskNameInputs]
    /\ ov \in OverridesUpTo(MaxOverridden)
    /\ mod = args.mod
    /\ pc = "relay:extract"
    /\ InitLocals
    /\ objectgen = NoObjectgen

Init == InitTir \/ InitRelay

Next == NextTir \/ NextRelay

\* a call of any of the three entry points
Spec == Init /\ [][Next]_vars

(***************************************************************************)
(* Deduplication properties (tune_relay), checked under SpecDedup.         *)
(***************************************************************************)
\* the scheduler has been constructed over the driver's task list
Handed == task_scheduler.cls \in {"RoundRobin", "made"}

Deduplicated == pc \notin {"relay:extract", "relay:target", "relay:database",
                           "relay:contexts", "relay:dedup", "raised"}

\* the reference deduplication: accept a candidate iff no previously accepted
\* candidate is structurally equal to it
ReferenceDedup(ctxs, accepted) ==
    IF ctxs = <<>> THEN accepted
    ELSE IF \E k \in 1..Len(accepted) : StructuralEqual(accepted[k].mod, Head(ctxs).mod)
    THEN ReferenceDedup(Tail(ctxs), accepted)
    ELSE ReferenceDedup(Tail(ctxs), Append(accepted, Head(ctxs)))

\* the number of structural-equality classes of a context list
NumClasses(ctxs) ==
    Cardinality({i \in 1..Len(ctxs) :
                   \A j \in 1..(i - 1) : ~StructuralEqual(ctxs[j].mod, ctxs[i].mod)})

\* the context of task k is in the list l
Survives(k, l) == \E i \in 1..Len(l) : l[i].task_name = k

\* C1: the task list handed to the Scheduler holds no two contexts whose
\* programs are structurally equal.
C1_NoStructurallyEqualTasks ==
    Handed =>
        \A i, j \in 1..Len(task_scheduler.tasks) :
            i # j => ~StructuralEqual(task_scheduler.tasks[i].mod, task_scheduler.tasks[j].mod)

\* C2: the deduplicated list is the first occurrence of every structural
\* class, in extraction order: it equals the reference deduplication.
C2_KeepsFirstOccurrences ==
    Deduplicated => tasks = ReferenceDedup(tune_contexts, <<>>)

\* C3: n extracted tasks in k structural classes: the Scheduler gets exactly k
\* tasks and the counts logged before and after deduplication are n and k.
C3_SchedulerGetsOneTaskPerClass ==
    Handed =>
        /\ Len(task_scheduler.tasks) = NumClasses(tune_contexts)
        /\ \E i \in 1..Len(calls) :
              /\ calls[i].op = "log:Before task deduplication"
              /\ calls[i].arg = <<Len(extracted_tasks)>>
        /\ \E i \in 1..Len(calls) :
              /\ calls[i].op = "log:After task deduplication"
              /\ calls[i].arg = <<NumClasses(tune_contexts)>>

\* C4: a candidate is discarded only when a structural-equality check against
\* another candidate succeeds, never on a hash match alone: a candidate with no
\* structurally equal duplicate elsewhere in the input survives, whatever
\* hashes it shares.
C4_HashCollisionSafe ==
    Deduplicated =>
        \A i \in 1..Len(tune_contexts) :
            (\A j \in 1..Len(tune_contexts) :
                j # i => ~StructuralEqual(tune_contexts[j].mod, tune_contexts[i].mod))
            => Survives(tune_contexts[i].task_name, tasks)

\* two different programs with one hash, neither with a duplicate, both kept
C4_Witness ==
    /\ Deduplicated
    /\ Len(tune_contexts) = 2
    /\ StructuralHash(tune_contexts[1].mod) = StructuralHash(tune_contexts[2].mod)
    /\ ~StructuralEqual(tune_contexts[1].mod, tune_contexts[2].mod)
    /\ tasks = tune_contexts

\* C5: deduplicating the deduplicated list again removes nothing.
C5_DedupIdempotent ==
    Deduplicated => Deduplicate(tasks) = tasks

\* a run that removed a task and kept two tasks of one hash
C5_Witness ==
    /\ Deduplicated
    /\ Len(tasks) < Len(tune_contexts)
    /\ \E i, j \in 1..Len(tasks) :
          i # j /\ StructuralHash(tasks[i].mod) = StructuralHash(tasks[j].mod)
    /\ Deduplicate(tasks) = tasks

(***************************************************************************)
(* Single-program flow (tune_tir, tune_te), checked under SpecTir.         *)
(***************************************************************************)
\* task_scheduler.tune() has been called and has returned
TuneCompleted == \E i \in 1..Len(calls) : calls[i].op = "tune"

\* positions of the cost model's save among the calls
SaveIndexes == {i \in 1..Len(calls) : calls[i].op = "save"}

\* C6: once tune has completed, the call raises nothing; it returns None when
\* the top-1 query for the normalized program finds no record, and a schedule
\* (the program with the best record's trace applied) iff a record exists.
C6_NoResultReturnsNone ==
    TuneCompleted =>
        /\ pc # "raised"
        /\ error = NoErr
        /\ pc = "returned" =>
              /\ GetTopK(records, mod) = <<>> => result.kind = "None"
              /\ GetTopK(records, mod) # <<>> <=> result.kind = "Schedule"
              /\ result.kind = "Schedule" =>
                    result.value = [mod |-> mod, trace |-> GetTopK(records, mod)[1].trace]

\* tune found nothing and the call returned None
C6_Witness ==
    /\ TuneCompleted
    /\ pc = "returned"
    /\ GetTopK(records, mod) = <<>>
    /\ result.kind = "None"
    /\ error = NoErr

\* C7: the cost model is saved at most once, to <work_dir>/<task_name>.xgb,
\* right after the best record's trace has been applied to the fresh schedule;
\* a call that returns a schedule has saved exactly once, and a call that
\* returns None or raises has not saved.
C7_SaveOnlyAtSuccess ==
    /\ Cardinality(SaveIndexes) <= 1
    /\ \A i \in SaveIndexes :
          /\ i > 1
          /\ calls[i - 1].op = "apply_to_schedule"
          /\ bests # <<>>
          /\ sch = [mod |-> mod, trace |-> bests[1].trace]
          /\ calls[i].arg = <<args.work_dir, args.task_name, ".xgb">>
    /\ pc = "returned" => (result.kind = "Schedule" <=> Cardinality(SaveIndexes) = 1)
    /\ pc = "raised" => SaveIndexes = {}

\* a call that returned the schedule and saved
C7_Witness ==
    /\ pc = "returned"
    /\ result.kind = "Schedule"
    /\ SaveIndexes # {}

\* C8 as stated: every call whose tune completed has saved the cost model by
\* the time it returns, also when no record was found.
C8_SaveUnconditional ==
    (TuneCompleted /\ pc = "returned") => SaveIndexes # {}

\* C8 as amended: a call whose tune completed has saved the cost model by the
\* time it returns exactly when the top-1 query found a record; on the
\* no-record path it returns without saving.
C8_SaveIffRecordFound ==
    (TuneCompleted /\ pc = "returned") =>
        (SaveIndexes # {} <=> GetTopK(records, mod) # <<>>)

\* the no-record path: returned, nothing saved
C8_Witness ==
    /\ TuneCompleted
    /\ pc = "returned"
    /\ GetTopK(records, mod) = <<>>
    /\ SaveIndexes = {}

(***************************************************************************)
(* Override resolution (class Parse), checked under Spec.                  *)
(***************************************************************************)
\* the name a resolver's TypeError gives the parameter
ErrName(p) ==
    IF p = "space" THEN "space_generator"
    ELSE IF p = "postprocs" THEN "postproc"
    ELSE p

\* the program argument is one the entry point can tune
ProgramValid ==
    IF entry = "tune_relay"
    THEN \A k \in 1..Len(args.mod.extract) :
             /\ Len(args.mod.extract[k].dispatched) = 1
             /\ Parse_mod(args.mod.extract[k].dispatched[1]).ok
    ELSE Parse_mod(IF entry = "tune_te" THEN CreatePrimFunc(args.mod) ELSE args.mod).ok

\* the resolver of collaborator q takes the value passed for it
CollaboratorResolves(q) ==
    IF q = "builder" THEN Parse_builder(ov[q]).ok
    ELSE IF q = "runner" THEN Parse_runner(ov[q]).ok
    ELSE IF q = "database" THEN Parse_database(ov[q], args.task_name, args.work_dir).ok
    ELSE IF q = "cost_model" THEN Parse_cost_model(ov[q]).ok
    ELSE IF q = "measure_callbacks" THEN Parse_callbacks(ov[q]).ok
    ELSE IF q = "task_scheduler"
    THEN Parse_task_scheduler(ov[q], <<>>, "", "", NoDatabase, "", <<>>).ok
    ELSE TRUE

\* every argument other than the override p is valid
OtherArgsValid(p) ==
    /\ ProgramValid
    /\ Parse_target(args.target).ok
    /\ Parse_tune_context(IRModuleOf({}), args.target, "", [ov EXCEPT ![p] = "None"]).ok
    /\ \A q \in Params \ {p} : CollaboratorResolves(q)

C9Params == {"builder", "runner", "database", "cost_model", "task_scheduler"}

\* a value without the capability the parameter needs: neither None nor an
\* instance of its class, nor (for the scheduler) a factory
LacksCapability(p, v) ==
    /\ v # "None"
    /\ ~IsInstance(v)
    /\ p = "task_scheduler" => ~Callable(v)

\* C9: a call that passes, as builder, runner, database, cost_model or
\* task_scheduler, a value without the required capability never tunes and
\* never returns, and, its other arguments being valid, it fails with a
\* TypeError that names that parameter and carries the value received.
C9_WrongCapabilityRaisesTypeError ==
    \A p \in C9Params :
        LacksCapability(p, ov[p]) =>
            /\ pc # "returned"
            /\ ~TuneCompleted
            /\ (pc = "raised" /\ OtherArgsValid(p)) =>
                   error = [type |-> "TypeError", param |-> p, value |-> ov[p]]

\* a plain integer passed as builder: the call failed naming "builder"
C9_Witness ==
    /\ ov["builder"] = "Int"
    /\ OtherArgsValid("builder")
    /\ pc = "raised"
    /\ error = [type |-> "TypeError", param |-> "builder", value |-> "Int"]

\* C10 as stated: every override parameter takes None, a ready-made instance
\* and a factory with a valid result (no TypeError naming it is raised), and
\* a call passing anything else, a factory with an invalid result included,
\* fails.
C10_ThreeShapesAccepted ==
    \A p \in Params :
        /\ ov[p] \in {"None", "Instance", "Factory"} =>
              ~(pc = "raised" /\ error.type = "TypeError" /\ error.param = ErrName(p))
        /\ ov[p] \in {"BadFactory", "Int", "BadList"} => pc # "returned"

\* the shapes each parameter's resolver takes
AcceptedShapes(p) ==
    IF p \in {"builder", "runner", "database", "cost_model", "measure_callbacks"}
    THEN {"None", "Instance"}
    ELSE IF p = "space" THEN {"None", "Instance", "Factory"}
    ELSE IF p = "task_scheduler" THEN {"None", "Instance", "Factory", "BadFactory"}
    ELSE {"None", "Factory", "BadFactory"}          \* sch_rules, postprocs, mutator_probs

\* the value a resolved policy of the first context has, given what was passed
PolicyAsPassed(v, dflt, got) ==
    got = IF v = "None" THEN dflt
          ELSE IF Callable(v) THEN CallResult(v)
          ELSE "given"

\* the call resolves parameter p at all: tune_relay resolves the four context
\* policies once per extracted task, so not at all when no task is extracted
IsResolved(p) ==
    (entry = "tune_relay" /\ p \in {"space", "sch_rules", "postprocs", "mutator_probs"})
        => args.mod.extract # <<>>

\* C10 as amended: each parameter takes None (the default is used) and the
\* shapes of AcceptedShapes: an instance but no factory for builder, runner,
\* database, cost_model and measure_callbacks; an instance or a validated
\* factory result for space; a factory only, its result not validated, for
\* sch_rules, postprocs and mutator_probs; an instance or a factory, its result
\* not validated, for task_scheduler.  A value of an accepted shape raises no
\* TypeError naming the parameter and is used as passed; any other shape makes
\* a call that resolves the parameter fail, with a TypeError naming the
\* parameter when the other arguments are valid.
C10_AcceptedShapePerParameter ==
    /\ \A p \in Params :
          /\ ov[p] \in AcceptedShapes(p) =>
                ~(pc = "raised" /\ error.type = "TypeError" /\ error.param = ErrName(p))
          /\ (ov[p] \notin AcceptedShapes(p) /\ IsResolved(p)) =>
                /\ pc # "returned"
                /\ ~TuneCompleted
                /\ (pc = "raised" /\ OtherArgsValid(p)) =>
                       (error.type = "TypeError" /\ error.param = ErrName(p))
    /\ tune_contexts # <<>> =>
          /\ PolicyAsPassed(ov["space"], "PostOrderApply", tune_contexts[1].space_generator)
          /\ PolicyAsPassed(ov["sch_rules"], DefaultProfile(target.kind), tune_contexts[1].sch_rules)
          /\ PolicyAsPassed(ov["postprocs"], DefaultProfile(target.kind), tune_contexts[1].postprocs)
          /\ PolicyAsPassed(ov["mutator_probs"], DefaultProfile(target.kind),
                            tune_contexts[1].mutator_probs)
    /\ builder # "" => PolicyAsPassed(ov["builder"], "LocalBuilder", builder)
    /\ runner # "" => PolicyAsPassed(ov["runner"], "LocalRunner", runner)
    /\ cost_model # "" => PolicyAsPassed(ov["cost_model"], "XGBModel", cost_model)
    /\ measure_callbacks # <<>> =>
          measure_callbacks = IF ov["measure_callbacks"] = "None"
                              THEN DefaultCallbacks ELSE <<"given">>
    /\ database.cls # "unset" =>
          database.cls = IF ov["database"] = "None" THEN "JSONDatabase" ELSE "given"
    /\ task_scheduler.cls # "unset" =>
          task_scheduler.cls = IF ov["task_scheduler"] = "None" THEN "RoundRobin"
                               ELSE IF ov["task_scheduler"] = "Factory" THEN "made"
                               ELSE IF ov["task_scheduler"] = "BadFactory" THEN "junk"
                               ELSE "given"

\* a factory passed as sch_rules was invoked, its result went into the context
\* unvalidated, and the call returned
C10_Witness ==
    /\ ov["sch_rules"] = "Factory"
    /\ pc = "returned"
    /\ tune_contexts # <<>>
    /\ tune_contexts[1].sch_rules = "made"

(***************************************************************************)
(* Default policies per target kind, checked under Spec.                   *)
(***************************************************************************)
TargetPolicies == {"sch_rules", "postprocs", "mutator_probs"}

\* the value a context holds for a target-dependent policy
ContextPolicy(c, p) ==
    IF p = "sch_rules" THEN c.sch_rules
    ELSE IF p = "postprocs" THEN c.postprocs
    ELSE c.mutator_probs

\* the elements of a resolved default policy
PolicyElements(profile, p) ==
    IF p = "sch_rules"
    THEN (IF profile = "DefaultLLVM" THEN DefaultLLVM_sch_rules
          ELSE IF profile = "DefaultCUDA" THEN DefaultCUDA_sch_rules ELSE <<>>)
    ELSE IF p = "postprocs"
    THEN (IF profile = "DefaultLLVM" THEN DefaultLLVM_postproc
          ELSE IF profile = "DefaultCUDA" THEN DefaultCUDA_postproc ELSE <<>>)
    ELSE (IF profile = "DefaultLLVM" THEN DefaultLLVM_mutator_probs
          ELSE IF profile = "DefaultCUDA" THEN DefaultCUDA_mutator_probs ELSE {})

\* a TuneContext has been constructed
ContextConstructed == \E i \in 1..Len(calls) : calls[i].op = "TuneContext"

\* everything the call resolves before the first target-dependent default is
\* valid, and the call does resolve the policies
ResolvesDefaults ==
    /\ ProgramValid
    /\ IsResolved("sch_rules")
    /\ Parse_database(ov["database"], args.task_name, args.work_dir).ok
    /\ Parse_space_generator(ov["space"]).ok
    /\ \A p \in TargetPolicies : ov[p] = "None" \/ Callable(ov[p])

\* C11: a target-dependent policy that is not overridden is resolved from the
\* target kind alone: every context of a call holds the LLVM profile for
\* 'llvm' and the CUDA profile for 'cuda', element-wise equal from one
\* resolution to the next; for any other kind no context is ever constructed
\* and the resolution raises a ValueError carrying the target.
C11_DefaultsByTargetKind ==
    /\ \A p \in TargetPolicies : \A k \in 1..Len(tune_contexts) :
          ov[p] = "None" =>
              /\ target.kind \in {"llvm", "cuda"}
              /\ ContextPolicy(tune_contexts[k], p) =
                     IF target.kind = "llvm" THEN "DefaultLLVM" ELSE "DefaultCUDA"
              /\ PolicyElements(ContextPolicy(tune_contexts[k], p), p) =
                     IF target.kind = "llvm"
                     THEN PolicyElements("DefaultLLVM", p) ELSE PolicyElements("DefaultCUDA", p)
              /\ \A j \in 1..Len(tune_contexts) :
                     PolicyElements(ContextPolicy(tune_contexts[j], p), p) =
                         PolicyElements(ContextPolicy(tune_contexts[k], p), p)
    /\ ( /\ \E p \in TargetPolicies : ov[p] = "None"
         /\ Parse_target(args.target).ok
         /\ args.target.kind \notin {"llvm", "cuda"} ) =>
            /\ tune_contexts = <<>>
            /\ ~ContextConstructed
            /\ (pc = "raised" /\ ResolvesDefaults) =>
                   error = [type |-> "ValueError", param |-> "", value |-> args.target.kind]

\* no override, target kind 'vulkan': the resolution raised the ValueError
C11_Witness ==
    /\ ov = AllNone
    /\ args.target.kind = "vulkan"
    /\ pc = "raised"
    /\ error = [type |-> "ValueError", param |-> "", value |-> "vulkan"]
    /\ tune_contexts = <<>>

(***************************************************************************)
(* Order of validation and work, checked under Spec.                       *)
(***************************************************************************)
\* the calls that construct a context, construct the default store or
\* extract the tasks
WorkCalls == {"TuneContext", "JSONDatabase", "extract_task_from_relay"}

\* the work found in the call log
WorkDone == {calls[i].op : i \in 1..Len(calls)} \cap WorkCalls

\* C12: when tune_tir or tune_relay raise a validation error (a TypeError or
\* ValueError of a resolver), no TuneContext has been constructed, no default
\* record store has been constructed and no task extraction has run.
C12_ValidationBeforeAnyWork ==
    (entry \in {"tune_tir", "tune_relay"} /\ pc = "raised"
        /\ error.type \in {"TypeError", "ValueError"}) => WorkDone = {}

(***************************************************************************)
(* The dispatch assertion of tune_relay, checked under Spec.               *)
(***************************************************************************)
\* positions of the extracted tasks without exactly one dispatched candidate
BadDispatch ==
    IF entry = "tune_relay"
    THEN {k \in 1..Len(args.mod.extract) : Len(args.mod.extract[k].dispatched) # 1}
    ELSE {}

\* the first such position
FirstBadDispatch == CHOOSE k \in BadDispatch : \A j \in BadDispatch : k <= j

\* everything tune_relay resolves before it reaches the first such task is
\* valid: the target, the database, and the program and policies of the tasks
\* before it
ValidUpToBadDispatch ==
    /\ Parse_target(args.target).ok
    /\ Parse_database(ov["database"], args.task_name, args.work_dir).ok
    /\ \A j \in 1..(FirstBadDispatch - 1) :
          LET m == Parse_mod(args.mod.extract[j].dispatched[1])
          IN  /\ m.ok
              /\ Parse_tune_context(m.val, Parse_target(args.target).val,
                                    args.mod.extract[j].task_name, ov).ok

\* the whole-model build has been invoked
BuildInvoked == \E i \in 1..Len(calls) : calls[i].op = "relay.build"

\* C13: when some extracted task of tune_relay does not have exactly one
\* dispatched candidate, the call never gets past the construction of the
\* contexts: tune and relay.build are never invoked and nothing is returned;
\* the error it ends with is the AssertionError whenever what is resolved
\* before that task is valid.
C13_BadDispatchAsserts ==
    BadDispatch # {} =>
        /\ pc \in {"relay:extract", "relay:target", "relay:database", "relay:contexts", "raised"}
        /\ ~TuneCompleted
        /\ ~BuildInvoked
        /\ result = NoResult
        /\ Len(tune_contexts) < FirstBadDispatch
        /\ (pc = "raised" /\ ValidUpToBadDispatch) =>
               /\ error.type = "AssertionError"
               /\ Len(tune_contexts) = FirstBadDispatch - 1

\* a valid first task, a second task without candidates: the assertion failed
\* after the first context was constructed
C13_Witness ==
    /\ BadDispatch = {2}
    /\ pc = "raised"
    /\ error.type = "AssertionError"
    /\ Len(tune_contexts) = 1

(***************************************************************************)
(* What the errors carry, checked under Spec.                              *)
(***************************************************************************)
\* the parameter names a caller of the entry points sees
CallerVisibleNames == Params \cup {"mod", "target"}

\* the values the call received for them, as an error message shows them
ReceivedValues ==
    {ov[p] : p \in Params} \cup {args.target.shape, args.target.kind, args.mod.kind, "element"}

\* C14: an error raised for an invalid override, an unsupported target, an
\* invalid program or a task with several dispatched candidates carries the
\* caller-visible name of the parameter and the value received for it.
C14_ErrorsCarryNameAndValue ==
    (pc = "raised" /\ error.type \in {"TypeError", "ValueError", "AssertionError"}) =>
        /\ error.param \in CallerVisibleNames
        /\ error.value \in ReceivedValues

(***************************************************************************)
(* Normalisation of the program, checked under Spec.                       *)
(***************************************************************************)
\* the program handed to Parse._mod by tune_tir and tune_te
ProgramGiven == IF entry = "tune_te" THEN CreatePrimFunc(args.mod) ELSE args.mod

\* out is the canonical form of in, for the three shapes Parse._mod accepts
Canonical(in, out) ==
    /\ in.kind = "PrimFunc" =>
          /\ out.kind = "IRModule"
          /\ Cardinality(out.funcs) = 1
          /\ \A e \in out.funcs :
                /\ e.name = "main"
                /\ \E i \in in.funcs : e.func.body = i.func.body
    /\ (in.kind = "IRModule" /\ Cardinality(in.funcs) = 1) =>
          /\ (\A i \in in.funcs : i.name # "main") =>
                 out = [kind |-> "IRModule",
                        funcs |-> {[name |-> "main", func |-> i.func] : i \in in.funcs}]
          /\ (\A i \in in.funcs : i.name = "main") => out = in

\* C15: the program a call works on after Parse._mod is canonical: a bare
\* PrimFunc, whatever its name, has become a module with the sole entry
\* 'main'; a module with one entry not named 'main' has become a module with
\* the sole entry 'main' bound to the same function; a module with the sole
\* entry 'main' is unchanged.  In tune_relay this holds of every context's
\* module with respect to its task's dispatched candidate.
C15_CanonicalRenaming ==
    /\ (entry \in {"tune_tir", "tune_te"} /\ pc \notin {"te:create_prim_func", "tir:mod"}) =>
           Canonical(ProgramGiven, mod)
    /\ entry = "tune_relay" =>
           \A k \in 1..Len(tune_contexts) :
               Canonical(args.mod.extract[k].dispatched[1], tune_contexts[k].mod)

\* tune_tir on a module whose only function is named 'fused', normalised
C15_Witness ==
    /\ entry = "tune_tir"
    /\ args.mod = [kind |-> "IRModule",
                   funcs |-> {[name |-> "fused", func |-> Func(1, "fused", FALSE)]}]
    /\ pc = "tir:database"
    /\ mod = [kind |-> "IRModule",
              funcs |-> {[name |-> "main", func |-> Func(1, "fused", FALSE)]}]

(***************************************************************************)
(* Resolution of the record store, checked under Spec.                     *)
(***************************************************************************)
\* the call has resolved its database
DatabaseResolved ==
    pc \notin {"te:create_prim_func", "tir:mod", "tir:database",
               "relay:extract", "relay:target", "relay:database", "raised"}

\* the default stores constructed so far
DefaultStoreCalls == {i \in 1..Len(calls) : calls[i].op = "JSONDatabase"}

\* C16: without a database override the store a call uses is the JSON store
\* over <work_dir>/<task_name>_database_workload.json and
\* <work_dir>/<task_name>_database_tuning_record.json, constructed once; with
\* a Database instance passed, the store used is that instance and no default
\* store is ever constructed.
C16_DefaultStorePaths ==
    /\ DatabaseResolved => database # NoDatabase
    /\ (ov["database"] = "None" /\ database # NoDatabase) =>
          /\ database.cls = "JSONDatabase"
          /\ database.path_workload =
                 <<args.work_dir, args.task_name, "_database_workload.json">>
          /\ database.path_tuning_record =
                 <<args.work_dir, args.task_name, "_database_tuning_record.json">>
          /\ Cardinality(DefaultStoreCalls) = 1
    /\ IsInstance(ov["database"]) =>
          /\ DefaultStoreCalls = {}
          /\ database \in {NoDatabase, GivenDatabase}

\* tune_relay with work_dir 'logs' and task_name 'conv2d', no database passed:
\* the default store is in place when tune is reached
C16_Witness ==
    /\ entry = "tune_relay"
    /\ ov["database"] = "None"
    /\ args.work_dir = "logs"
    /\ args.task_name = "conv2d"
    /\ pc = "relay:tune"
    /\ database = [cls |-> "JSONDatabase",
                   path_workload |-> <<"logs", "conv2d", "_database_workload.json">>,
                   path_tuning_record |-> <<"logs", "conv2d", "_database_tuning_record.json">>]

(***************************************************************************)
(* tune_te as tune_tir on the lowered tensors, checked under SpecTir.      *)
(***************************************************************************)
\* what tune_tir resolves for program p, arguments a and overrides o before it
\* calls tune: the first error in resolution order, or the scheduler
TirResolution(p, a, o) ==
    LET m  == Parse_mod(p)
        d  == Parse_database(o["database"], a.task_name, a.work_dir)
        t  == Parse_target(a.target)
        c  == Parse_tune_context(m.val, t.val, a.task_name, o)
        b  == Parse_builder(o["builder"])
        r  == Parse_runner(o["runner"])
        cm == Parse_cost_model(o["cost_model"])
        cb == Parse_callbacks(o["measure_callbacks"])
        s  == Parse_task_scheduler(o["task_scheduler"], <<c.val>>, b.val, r.val,
                                   d.val, cm.val, cb.val)
    IN  IF ~m.ok THEN m
        ELSE IF ~d.ok THEN d
        ELSE IF ~t.ok THEN t
        ELSE IF ~c.ok THEN c
        ELSE IF ~b.ok THEN b
        ELSE IF ~r.ok THEN r
        ELSE IF ~cm.ok THEN cm
        ELSE IF ~cb.ok THEN cb
        ELSE s

\* the outcome of the call in the current state is the outcome of tune_tir
\* on program p with the call's own target, work_dir, task_name and overrides
OutcomeOfTirOn(p) ==
    LET R == TirResolution(p, args, ov)
    IN  /\ (pc = "raised" /\ error.type # "AttributeError") => (~R.ok /\ error = R.err)
        /\ (pc = "raised" /\ error.type = "AttributeError") => (R.ok /\ R.val.cls = "junk")
        /\ pc = "tir:tune" => (R.ok /\ task_scheduler = R.val)
        /\ pc = "returned" =>
              /\ R.ok
              /\ task_scheduler = R.val
              /\ result.kind = IF GetTopK(records, Parse_mod(p).val) = <<>>
                               THEN "None" ELSE "Schedule"
              /\ result.kind = "Schedule" => result.value.mod = Parse_mod(p).val

\* the calls of a tune_te call after the lowering
CallsAfterLowering == IF calls = <<>> THEN <<>> ELSE Tail(calls)

CallIndexes(op) == {i \in 1..Len(calls) : calls[i].op = op}

\* C18: in tune_relay the whole-model build is invoked only after tune has
\* returned and at most once; once the call has ended after tune, the log
\* holds exactly one build, between the entry and the exit of one
\* apply-history scope over the resolved database, on the parsed target; a
\* successful build makes the call return its artifact for the original
\* program, a failed one makes the call raise, and the scope is exited in both
\* cases.
C18_BuildOnceInsideScope ==
    entry = "tune_relay" =>
        LET B == CallIndexes("relay.build")
            E == CallIndexes("ApplyHistoryBest.__enter__")
            X == CallIndexes("ApplyHistoryBest.__exit__")
            T == CallIndexes("tune")
        IN  /\ Cardinality(B) <= 1 /\ Cardinality(T) <= 1
            /\ \A b \in B : \E t \in T : t < b
            /\ (TuneCompleted /\ pc \in {"returned", "raised"}) =>
                  /\ Cardinality(B) = 1 /\ Cardinality(E) = 1 /\ Cardinality(X) = 1
                  /\ \A b \in B : \A e \in E : \A x \in X :
                        /\ e < b /\ b < x
                        /\ calls[e].arg = <<database.cls>>
                        /\ calls[x].arg = <<database.cls>>
                        /\ calls[b].arg = <<Parse_target(args.target).val.kind>>
                  /\ database = Parse_database(ov["database"], args.task_name, args.work_dir).val
            /\ pc = "returned" =>
                  /\ TuneCompleted
                  /\ result = [kind |-> "ExecutorFactoryModule",
                               value |-> [mod |-> args.mod, records |-> records]]
            /\ (pc = "raised" /\ TuneCompleted) =>
                  /\ error.type = "BuildError"
                  /\ result = NoResult

\* the build failed after tune: the call raised and the scope was exited
C18_Witness ==
    /\ entry = "tune_relay"
    /\ pc = "raised"
    /\ error.type = "BuildError"
    /\ CallIndexes("ApplyHistoryBest.__exit__") # {}
    /\ Len(tasks) = 2

(***************************************************************************)
(* Order of the steps of a call, checked under Spec.                       *)
(***************************************************************************)
\* the calls that read the record store
ReadOps == {"commit_workload", "get_top_k", "ApplyHistoryBest.__enter__", "relay.build"}

\* the calls of normalisation, store resolution, context construction and
\* collaborator resolution
PrepareOps ==
    {"create_prim_func", "extract_task_from_relay", "JSONDatabase", "space()",
     "create_strategy", "sch_rules()", "postprocs()", "mutator_probs()", "TuneContext",
     "log:Before task deduplication", "log:After task deduplication",
     "LocalBuilder", "LocalRunner", "XGBModel", "RoundRobin", "task_scheduler()"}

\* the target, the store and the collaborators the call holds are the results
\* of their successful resolution
CollaboratorsResolved ==
    /\ Parse_target(args.target).ok /\ target = Parse_target(args.target).val
    /\ Parse_database(ov["database"], args.task_name, args.work_dir).ok
    /\ database = Parse_database(ov["database"], args.task_name, args.work_dir).val
    /\ Parse_builder(ov["builder"]).ok /\ builder = Parse_builder(ov["builder"]).val
    /\ Parse_runner(ov["runner"]).ok /\ runner = Parse_runner(ov["runner"]).val
    /\ Parse_cost_model(ov["cost_model"]).ok
    /\ cost_model = Parse_cost_model(ov["cost_model"]).val
    /\ Parse_callbacks(ov["measure_callbacks"]).ok
    /\ measure_callbacks = Parse_callbacks(ov["measure_callbacks"]).val
    /\ LET s == Parse_task_scheduler(ov["task_scheduler"], tasks, builder, runner,
                                     database, cost_model, measure_callbacks)
       IN  s.ok /\ task_scheduler = s.val

\* the program is normalised and the contexts of the call are constructed
ContextsConstructed ==
    IF entry = "tune_relay"
    THEN LET r == ContextsLoop(args.mod.extract, target, ov, [ctxs |-> <<>>, calls |-> <<>>])
         IN  r.ok /\ tune_contexts = r.val /\ tasks = Deduplicate(tune_contexts)
    ELSE LET m == Parse_mod(ProgramGiven)
             c == Parse_tune_context(m.val, target, args.task_name, ov)
         IN  m.ok /\ mod = m.val /\ c.ok /\ tune_contexts = <<c.val>> /\ tasks = tune_contexts

\* C19: in every call tune is invoked at most once and only when
\* normalisation, store resolution, context construction and collaborator
\* resolution have all succeeded, every call of these steps preceding it; the
\* record store is read (commit_workload / get_top_k in tune_tir, the
\* apply-history scope and build in tune_relay) only after tune.
C19_StepsInOrder ==
    LET T == CallIndexes("tune")
    IN  /\ Cardinality(T) <= 1
        /\ T # {} => (CollaboratorsResolved /\ ContextsConstructed)
        /\ \A i \in 1..Len(calls) :
              /\ calls[i].op \in PrepareOps => \A t \in T : i < t
              /\ calls[i].op \in ReadOps => \E t \in T : t < i
        /\ pc \in {"tir:get_top_k", "tir:apply", "tir:save", "relay:build", "returned"}
              => T # {}

\* tune_tir read the store after the one tune call, all collaborators default
C19_Witness ==
    /\ entry = "tune_tir"
    /\ ov = AllNone
    /\ CallIndexes("tune") # {}
    /\ CallIndexes("get_top_k") # {}
    /\ CallIndexes("JSONDatabase") # {}
    /\ pc = "returned"

(***************************************************************************)
(* What the scheduler that tunes was given, checked under Spec.            *)
(***************************************************************************)
\* C20: whatever the task_scheduler override (None, a factory, an instance),
\* the scheduler whose tune has run holds exactly the driver's task list and
\* the resolved builder, runner, database, cost model and callbacks, the
\* database being the one the driver reads afterwards; without an override it
\* is a round-robin scheduler.
C20_SchedulerGivenDriverTasks ==
    TuneCompleted =>
        /\ task_scheduler.tasks = tasks
        /\ task_scheduler.builder = builder
        /\ task_scheduler.runner = runner
        /\ task_scheduler.database = database
        /\ task_scheduler.cost_model = cost_model
        /\ task_scheduler.measure_callbacks = measure_callbacks
        /\ ov["task_scheduler"] = "None" => task_scheduler.cls = "RoundRobin"

(***************************************************************************)
(* Which programs Parse._mod accepts, checked under Spec.                  *)
(***************************************************************************)
\* tune_tir or tune_te raised while normalising the program, before the
\* database was resolved
RaisedInMod ==
    /\ entry \in {"tune_tir", "tune_te"}
    /\ pc = "raised"
    /\ database = NoDatabase
    /\ error.param # "database"

\* C21: normalisation fails only for a program that is neither a PrimFunc nor
\* an IRModule, with a TypeError; every IRModule is accepted, and one whose
\* number of entries is not exactly one is the program the call goes on with,
\* unchanged.
C21_EveryModuleAccepted ==
    /\ RaisedInMod =>
          /\ ProgramGiven.kind \notin {"PrimFunc", "IRModule"}
          /\ error.type = "TypeError"
    /\ ( /\ entry \in {"tune_tir", "tune_te"}
         /\ ProgramGiven.kind = "IRModule"
         /\ Cardinality(ProgramGiven.funcs) # 1
         /\ pc # "tir:mod" ) =>
            /\ ~RaisedInMod
            /\ mod = ProgramGiven

(***************************************************************************)
(* The deduplication loses no work, checked under SpecDedup.               *)
(***************************************************************************)
\* l is a sub-list of m in m's order: some strictly increasing choice of
\* positions of m gives l
IsSubList(l, m) ==
    \E f \in [1..Len(l) -> 1..Len(m)] :
        /\ \A i \in 1..Len(l) : m[f[i]] = l[i]
        /\ \A i, j \in 1..Len(l) : i < j => f[i] < f[j]

\* C22: the deduplicated list is a sub-list of the contexts in extraction
\* order; every context that was discarded is structurally equal to one that
\* remains, the last context of every structural class remaining; no context
\* gives no task and a single context is kept.
C22_DedupLosesNoWork ==
    Deduplicated =>
        /\ IsSubList(tasks, tune_contexts)
        /\ \A k \in 1..Len(tune_contexts) :
              /\ ~Survives(tune_contexts[k].task_name, tasks) =>
                     \E i \in 1..Len(tasks) :
                         StructuralEqual(tasks[i].mod, tune_contexts[k].mod)
              /\ (\A j \in (k + 1)..Len(tune_contexts) :
                      ~StructuralEqual(tune_contexts[j].mod, tune_contexts[k].mod))
                     => Survives(tune_contexts[k].task_name, tasks)
        /\ tune_contexts = <<>> => tasks = <<>>
        /\ Len(tune_contexts) = 1 => tasks = tune_contexts

\* three equal programs: the second was discarded, the last one remains
C22_Witness ==
    /\ Deduplicated
    /\ Len(tune_contexts) = 3
    /\ Len(tasks) = 2
    /\ \A i, j \in 1..3 : StructuralEqual(tune_contexts[i].mod, tune_contexts[j].mod)
    /\ tasks = <<tune_contexts[1], tune_contexts[3]>>

(***************************************************************************)
(* objectgen: from_python and resolve_parent_fields.                       *)
(***************************************************************************)
\* longest list of object definitions explored
MaxDefs == 3

\* names of the definitions, and what a definition may name as its parent (a
\* name that no definition of the list carries is a missing parent)
DefNames == {"A", "B", "C"}
ParentNames == DefNames \cup {"ObjectRef"}

\* an ObjectDefinition; a field is identified by a number
ObjectDefinition(n, f, p) == [name |-> n, fields |-> f, inherits_from |-> p]

\* the definition lists of at most n definitions; the definition at position
\* i comes with the one field i of its own
DefinitionLists(n) ==
    UNION { { [i \in 1..k |-> ObjectDefinition(nm[i], <<i>>, pr[i])] :
              nm \in [1..k -> DefNames], pr \in [1..k -> ParentNames] } : k \in 0..n }

\* parent_map: for every name in the list the position of the definition that
\* carries it; a later definition of a name replaces an earlier one
ParentMap(defs) ==
    [n \in {defs[k].name : k \in 1..Len(defs)} |->
        CHOOSE k \in 1..Len(defs) :
            defs[k].name = n /\ \A j \in (k + 1)..Len(defs) : defs[j].name # n]

\* the second loop of resolve_parent_fields from position i on; a parent name
\* that is not a key of parent_map raises KeyError and ends the loop
ResolveLoop(defs, i) ==
    IF i > Len(defs) THEN [ok |-> TRUE, defs |-> defs, err |-> ""]
    ELSE LET defn == defs[i]
         IN  IF defn.inherits_from = "ObjectRef"
             THEN ResolveLoop(defs, i + 1)
             ELSE IF defn.inherits_from \notin DOMAIN ParentMap(defs)
             THEN [ok |-> FALSE, defs |-> defs, err |-> "KeyError"]
             ELSE LET parent_fields == defs[ParentMap(defs)[defn.inherits_from]].fields
                  IN  ResolveLoop([defs EXCEPT ![i].fields = defn.fields \o parent_fields],
                                  i + 1)

\* resolve_parent_fields taking the parent's fields as they were passed in
resolve_parent_fields_FromGiven(definitions) ==
    IF \E i \in 1..Len(definitions) :
           definitions[i].inherits_from \notin DOMAIN ParentMap(definitions) \cup {"ObjectRef"}
    THEN ResolveLoop(definitions, 1)
    ELSE [ok |-> TRUE, err |-> "",
          defs |-> [i \in 1..Len(definitions) |->
                      IF definitions[i].inherits_from = "ObjectRef" THEN definitions[i]
                      ELSE [definitions[i] EXCEPT !.fields =
                              @ \o definitions[ParentMap(definitions)[
                                                   definitions[i].inherits_from]].fields]]]

resolve_parent_fields(definitions) == ResolveLoop(definitions, 1)

tunevars == <<entry, pc, args, ov, mod, target, database, extracted_tasks,
              tune_contexts, tasks, builder, runner, cost_model, measure_callbacks,
              task_scheduler, records, bests, sch, calls, error, result>>

\* from_python(config, definitions) for every definition list and config
InitObjectgen ==
    /\ \E d \in DefinitionLists(MaxDefs) : \E c \in [cpp : BOOLEAN, python : BOOLEAN] :
          objectgen = [pc |-> "og:resolve", given |-> d, definitions |-> d,
                       config |-> c, generated |-> <<>>, error |-> ""]
    /\ entry = "from_python"
    /\ pc = "idle"
    /\ args = [mod |-> IRModuleOf({}), target |-> NoTarget, work_dir |-> "", task_name |-> ""]
    /\ ov = AllNone
    /\ mod = IRModuleOf({})
    /\ InitLocals

\* resolve_parent_fields(definitions)
FromPythonResolve ==
    /\ objectgen.pc = "og:resolve"
    /\ LET r == resolve_parent_fields(objectgen.definitions)
       IN  objectgen' = [objectgen EXCEPT !.definitions = r.defs,
                                          !.error = r.err,
                                          !.pc = IF r.ok THEN "og:generate" ELSE "raised"]
    /\ UNCHANGED tunevars

\* the generators of the configured languages run over the definitions
FromPythonGenerate ==
    /\ objectgen.pc = "og:generate"
    /\ objectgen' = [objectgen EXCEPT
                        !.generated = (IF objectgen.config.cpp THEN <<"cpp">> ELSE <<>>)
                                      \o (IF objectgen.config.python THEN <<"python">> ELSE <<>>),
                        !.pc = "returned"]
    /\ UNCHANGED tunevars

NextObjectgen ==
    \/ FromPythonResolve
    \/ FromPythonGenerate

SpecObjectgen == InitObjectgen /\ [][NextObjectgen]_vars

(***************************************************************************)
(* What resolve_parent_fields leaves, checked under SpecObjectgen.         *)
(***************************************************************************)
\* resolve_parent_fields has returned
Resolved == objectgen.pc \in {"og:generate", "returned"}

\* the definition at position k names a parent
HasParent(k) == objectgen.given[k].inherits_from # "ObjectRef"

\* its parent's name is carried by no definition
ParentMissing(k) ==
    HasParent(k) /\ objectgen.given[k].inherits_from \notin DOMAIN ParentMap(objectgen.given)

\* position of the parent of the definition at position k
ParentOf(k) == ParentMap(objectgen.given)[objectgen.given[k].inherits_from]

\* the j-th ancestor of the definition at position k, 0 when the chain has
\* ended before
Up(k, j) ==
    IF j = 0 THEN k
    ELSE LET u == Up(k, j - 1)
         IN  IF u = 0 THEN 0
             ELSE IF ~HasParent(u) \/ ParentMissing(u) THEN 0
             ELSE ParentOf(u)

Ancestors(k) == {Up(k, j) : j \in 1..Len(objectgen.given)} \ {0}

\* the chain of parents from k ends in a definition inheriting from ObjectRef
Acyclic(k) == Up(k, Len(objectgen.given)) = 0

\* the definition at position k holds the fields of itself and all ancestors
HasAllAncestorFields(k) ==
    \A a \in Ancestors(k) \cup {k} :
        \A i \in 1..Len(objectgen.given[a].fields) :
            \E n \in 1..Len(objectgen.definitions[k].fields) :
                objectgen.definitions[k].fields[n] = objectgen.given[a].fields[i]

\* the fields of k's parent at the moment the loop handles k: the resolved
\* ones when the parent is listed before k, the given ones otherwise
ParentFieldsAtThatMoment(k) ==
    IF ParentOf(k) < k THEN objectgen.definitions[ParentOf(k)].fields
    ELSE objectgen.given[ParentOf(k)].fields

\* what is left of every definition, and the error for a missing parent
FieldsAsResolved ==
    /\ Resolved =>
          /\ Len(objectgen.definitions) = Len(objectgen.given)
          /\ \A k \in 1..Len(objectgen.given) :
                IF ~HasParent(k)
                THEN objectgen.definitions[k] = objectgen.given[k]
                ELSE objectgen.definitions[k] =
                         [objectgen.given[k] EXCEPT
                             !.fields = @ \o ParentFieldsAtThatMoment(k)]
    /\ (\E k \in 1..Len(objectgen.given) : ParentMissing(k)) =>
          /\ ~Resolved
          /\ objectgen.pc = "raised" => objectgen.error = "KeyError"
    /\ objectgen.pc = "raised" => \E k \in 1..Len(objectgen.given) : ParentMissing(k)

\* every definition on the chain from k that names a parent is listed after
\* that parent
ParentsListedFirst(k) ==
    \A a \in Ancestors(k) \cup {k} : HasParent(a) => ParentOf(a) < a

\* every ancestor of k that names a parent itself is listed before its child
\* on the chain
InheritingAncestorsListedFirst(k) ==
    \A a \in Ancestors(k) \cup {k} :
        (HasParent(a) /\ HasParent(ParentOf(a))) => ParentOf(a) < a

====
